---- MODULE Spec2Model ----
(***************************************************************************)
(* Session state machine and caching policy of the document summarizer     *)
(* (src/ads2.py).  One action per script run that a user interaction       *)
(* triggers: changing the uploaded files, "Generate Summary", "Clear All & *)
(* Reset", and submitting a question.  The remote model is an opaque       *)
(* capability: each call either returns a text (possibly empty) or raises. *)
(* The earlier single-file application (src/ads.py) is modelled next to    *)
(* it, on variables of its own.                                            *)
(***************************************************************************)
EXTENDS Integers, Sequences, FiniteSets, TLC

VARIABLES
    summary,                  \* st.session_state['summary']
    chat_history,             \* st.session_state['chat_history']
    last_processed_files_key, \* st.session_state['last_processed_files_key']
    pdf_docs,                 \* value of the file_uploader widget
    summary_cache,            \* memo table of @st.cache_data on summarize_with_gemini
    qa_cache,                 \* memo table of @st.cache_data on handle_user_question
    temp_files,               \* number of temporary files alive on disk
    remote_log,               \* history: summarization requests the remote model answered
    failure_log,              \* history: options summarize_with_gemini returned None for
    turn_summary,             \* history: the session summary each stored turn was recorded under
    answered,                 \* history: successful (question, answer) calls since the last successful summary
    last,                     \* history: what the most recent script run did
    ads_summary,              \* ads.py: st.session_state["summary"], or absent
    ads_pdf_file,             \* ads.py: value of the file_uploader widget
    ads_user_question,        \* ads.py: value of the text_input widget
    ads_temp_files,           \* ads.py: number of temporary files alive on disk
    ads_last                  \* ads.py history: what the most recent script run did

ads_vars == <<ads_summary, ads_pdf_file, ads_user_question, ads_temp_files, ads_last>>

ads2_vars == <<summary, chat_history, last_processed_files_key, pdf_docs,
               summary_cache, qa_cache, temp_files, remote_log, failure_log,
               turn_summary, answered, last>>

vars == <<ads2_vars, ads_vars>>

session == <<summary, chat_history, last_processed_files_key>>

(***************************************************************************)
(* Bounds                                                                  *)
(***************************************************************************)
\* Spec: the whole session on one document, short conversations
MaxSumCache == 2    \* memoized summarization calls kept in the model
MaxTurns == 2       \* questions are submitted while the transcript is shorter
MaxQACache == 2     \* memoized Q&A calls kept in the model
\* SpecSum: uploads, summaries and resets over several document sets
NumDocs == 2        \* distinct files the user owns
MaxDocs == 2        \* files in the uploader at once
SumMaxCache == 1
\* SpecAds: the single-file application
AdsMaxSummaries == 3    \* "Summarize PDF" runs that stage a file
\* SpecChat: long conversations about one document
ChatMaxTurns == 5
ChatMaxQACache == 5

(***************************************************************************)
(* Python values: None, str and tuple are kept apart by a tag.             *)
(***************************************************************************)
None == [t |-> "None"]
Str(s) == [t |-> "str", v |-> s]
Tuple(s) == [t |-> "tuple", v |-> s]

\* variant of Truthy: `if x is not None:`
IsNotNone(x) == x.t = "str"

\* truth value of `if x:` for x a str or None
Truthy(x) == x.t = "str" /\ x.v # ""

\* variant of TruthyList: the branch is always taken
TruthyListAlways(l) == TRUE

\* truth value of `if l:` for l a list
TruthyList(l) == l # <<>>

\* Window of prior turns handed to the Q&A prompt
HISTORY_WINDOW == 3

(***************************************************************************)
(* Uploaded files.  An UploadedFile is <<name, size, file_id>>; names and  *)
(* ids are encoded as naturals so that tuples can be ordered as Python     *)
(* orders them.  Two files may share a name and a size, never a file_id.   *)
(***************************************************************************)
UploadedFile(i) == <<(i + 1) % 2, 10 + ((i * 2) % 3), 10 - i>>

Docs(n) == {UploadedFile(i) : i \in 1..n}

\* lists the uploader can hold: no file twice
DocListsOf(docs, maxDocs) ==
    UNION {{s \in [1..n -> docs] : \A i, j \in 1..n : i # j => s[i] # s[j]} : n \in 0..maxDocs}

DocLists == DocListsOf(Docs(NumDocs), MaxDocs)
OneDocLists == {<<>>, <<UploadedFile(1)>>}

\* Python's tuple comparison a < b on (name, size, file_id)
TupleLess(a, b) ==
    \/ a[1] < b[1]
    \/ a[1] = b[1] /\ a[2] < b[2]
    \/ a[1] = b[1] /\ a[2] = b[2] /\ a[3] < b[3]

RECURSIVE Insert(_, _)
Insert(x, s) ==
    IF s = <<>> THEN <<x>>
    ELSE IF TupleLess(x, Head(s)) THEN <<x>> \o s
    ELSE <<Head(s)>> \o Insert(x, Tail(s))

\* sorted(...) of a list of tuples
RECURSIVE sorted(_)
sorted(s) == IF s = <<>> THEN <<>> ELSE Insert(Head(s), sorted(Tail(s)))

\* variant of generate_file_key without sorted()
generate_file_key_unsorted(pdf_docs_list) ==
    IF pdf_docs_list = <<>> THEN None ELSE Tuple(pdf_docs_list)

generate_file_key(pdf_docs_list) ==
    IF pdf_docs_list = <<>> THEN None ELSE Tuple(sorted(pdf_docs_list))

(***************************************************************************)
(* Options of the two radio widgets and what main() passes on.             *)
(***************************************************************************)
LengthOptions == {"Concise", "Detailed"}
FormatOptions == {"Paragraph", "Bullet Points"}

\* str.lower() on the option labels
lower(s) ==
    CASE s = "Concise" -> "concise"
      [] s = "Detailed" -> "detailed"
      [] s = "Paragraph" -> "paragraph"
      [] s = "Bullet Points" -> "bullet points"

\* str.replace(" ", "_") on the lowered labels
replace_space(s) == IF s = "bullet points" THEN "bullet_points" ELSE s

(***************************************************************************)
(* The remote model.  A summarization outcome is the staging outcome of    *)
(* the upload loop and the outcome of generate_content.                    *)
(***************************************************************************)
SummaryTexts == {"", "s1", "s2"}
AnswerTexts == {"", "a1"}
Questions == {"q1"}
ChatQuestions == {"q1", "q2"}

Raised == [raised |-> TRUE]
Returned(text) == [raised |-> FALSE, text |-> text]

GenOutcomes == {Raised} \cup {Returned(text) : text \in SummaryTexts}
ChatGenOutcomes == {Raised, Returned("s1")}
AnswerOutcomes == {Raised} \cup {Returned(text) : text \in AnswerTexts}
ChatAnswerOutcomes == {Raised, Returned("a1")}

StageKinds == {"create", "write", "upload"}

\* get_gemini_model(): returns the model, returns None, or raises
ModelOutcomes == {"ok", "none", "raised"}
ModelOk == {"ok"}

\* at = 0: every file is staged and uploaded; at = i: file i fails, in
\* NamedTemporaryFile ("create"), in tmp.write ("write") or in upload_file ("upload")
StageOutcomes(docs, kinds) ==
    {[at |-> 0, kind |-> "ok"]} \cup
    {[at |-> i, kind |-> k] : i \in 1..Len(docs), k \in kinds}

(***************************************************************************)
(* summarize_with_gemini: the function body, then the memoizing decorator. *)
(***************************************************************************)
\* The body, run on a cache miss.  The loop stops at the first file that
\* fails; `finally` removes the paths appended to temp_file_paths.  When
\* get_gemini_model() returns None or raises, the function leaves the `try`
\* before temp_file_paths is bound, and the loop of `finally` over that
\* name raises UnboundLocalError in place of the pending `return None`.
summarize_body(_streamlit_uploaded_files, summary_length, output_format, env) ==
    LET n == Len(_streamlit_uploaded_files)
        at == env.stage.at
        failed == at # 0
        \* files NamedTemporaryFile created on disk
        created == IF ~failed THEN 1..n
                   ELSE IF env.stage.kind = "create" THEN 1..(at - 1) ELSE 1..at
        \* temp_file_paths
        temp_file_paths == IF ~failed THEN 1..n
                           ELSE IF env.stage.kind = "upload" THEN 1..at ELSE 1..(at - 1)
        uploaded_gemini_files == IF ~failed THEN 1..n ELSE 1..(at - 1)
        generated == ~failed /\ uploaded_gemini_files # {}
        ret == IF failed THEN None
               ELSE IF uploaded_gemini_files = {} THEN None
               ELSE IF env.gen.raised THEN None
               ELSE Str(env.gen.text)
    IN  IF env.model # "ok"
        THEN [raises |-> TRUE, ret |-> None, generated |-> FALSE, replied |-> FALSE,
              leaked |-> 0]
        ELSE [raises |-> FALSE,
              ret |-> ret,
              generated |-> generated,
              replied |-> generated /\ ~env.gen.raised,
              leaked |-> Cardinality(created \ temp_file_paths)]

\* a key the memo table does not hold
Miss == [t |-> "miss"]

\* Key of the memo table: the arguments whose name does not start with an
\* underscore, so _streamlit_uploaded_files is not part of it.
summary_cache_key(_streamlit_uploaded_files, summary_length, output_format) ==
    <<summary_length, output_format>>

\* variant of cache_lookup: a table that never remembers
cache_lookup_never(cache, key) == Miss

cache_lookup(cache, key) ==
    IF \E e \in cache : e.key = key
    THEN (CHOOSE e \in cache : e.key = key).val
    ELSE Miss

\* variant of cache_store: a table that keeps successes only
cache_store_successes(cache, key, val) ==
    IF val = None THEN cache ELSE cache \cup {[key |-> key, val |-> val]}

\* the decorator stores whatever the function returned
cache_store(cache, key, val) == cache \cup {[key |-> key, val |-> val]}

summarize_with_gemini(cache, _streamlit_uploaded_files, summary_length, output_format, env) ==
    LET key == summary_cache_key(_streamlit_uploaded_files, summary_length, output_format)
        found == cache_lookup(cache, key)
        body == summarize_body(_streamlit_uploaded_files, summary_length, output_format, env)
    IN  IF found # Miss
        THEN [raises |-> FALSE, ret |-> found, hit |-> TRUE, cache |-> cache,
              replied |-> FALSE, leaked |-> 0]
        ELSE IF body.raises
        THEN [raises |-> TRUE, ret |-> None, hit |-> FALSE, cache |-> cache,
              replied |-> FALSE, leaked |-> 0]
        ELSE [raises |-> FALSE, ret |-> body.ret, hit |-> FALSE,
              cache |-> cache_store(cache, key, body.ret),
              replied |-> body.replied, leaked |-> body.leaked]

\* What the environment may do during one call: nothing is asked of it when
\* the memo table already holds the key.
SummarizeOutcomes(cache, _streamlit_uploaded_files, summary_length, output_format, gens, kinds, models) ==
    IF cache_lookup(cache, summary_cache_key(_streamlit_uploaded_files, summary_length,
                                             output_format)) # Miss
    THEN {[model |-> "ok", stage |-> [at |-> 0, kind |-> "ok"], gen |-> Raised]}
    ELSE {[model |-> "ok", stage |-> st, gen |-> g] :
             st \in StageOutcomes(_streamlit_uploaded_files, kinds), g \in gens}
         \cup {[model |-> m, stage |-> [at |-> 0, kind |-> "ok"], gen |-> Raised] :
                  m \in models \ {"ok"}}

(***************************************************************************)
(* handle_user_question, memoized on (question, summary, chat_history).    *)
(***************************************************************************)
\* The parts of full_prompt that vary: the summary as context, the labeled
\* lines of the history handed in, and the current question.
qa_prompt(question, summary_arg, history) ==
    [context |-> summary_arg,
     history |-> [i \in 1..(2 * Len(history)) |->
                    IF i % 2 = 1
                    THEN <<"User", history[(i + 1) \div 2][1]>>
                    ELSE <<"Assistant", history[i \div 2][2]>>],
     question |-> question]

\* The body, run on a cache miss: the prompt goes to generate_content, which
\* returns a text or raises.
handle_user_question_body(question, summary_arg, history, out) ==
    [ret |-> IF out.raised THEN None ELSE Str(out.text),
     sent |-> qa_prompt(question, summary_arg, history)]

handle_user_question(cache, question, summary_arg, history, out) ==
    LET key == <<question, summary_arg, history>>
        found == cache_lookup(cache, key)
        body == handle_user_question_body(question, summary_arg, history, out)
    IN  IF found # Miss
        THEN [ret |-> found, hit |-> TRUE, cache |-> cache, sent |-> None]
        ELSE [ret |-> body.ret, hit |-> FALSE,
              cache |-> cache_store(cache, key, body.ret), sent |-> body.sent]

QuestionOutcomes(cache, question, summary_arg, history, outs) ==
    IF cache_lookup(cache, <<question, summary_arg, history>>) # Miss
    THEN {Raised}
    ELSE outs

\* variant of last_k: s[-(k+1):]
last_k_plus_one(s, k) == SubSeq(s, IF Len(s) > k + 1 THEN Len(s) - k ELSE 1, Len(s))

\* Python's s[-k:]
last_k(s, k) == SubSeq(s, IF Len(s) > k THEN Len(s) - k + 1 ELSE 1, Len(s))

(***************************************************************************)
(* src/ads.py: one uploaded file, no memoization, no transcript.  Both     *)
(* adapters turn an exception into a returned text that starts with a      *)
(* cross mark (left out here) and "Error during".                          *)
(***************************************************************************)
\* the key is not in st.session_state
Absent == [t |-> "absent"]

AdsFile(i) == [t |-> "file", v |-> UploadedFile(i)]
AdsFiles == {None, AdsFile(1), AdsFile(2)}
AdsSummaryTexts == {"", "s1"}
AdsAnswerTexts == {"a1"}
AdsQuestions == {"", "q1"}
AdsErrors == {"quota"}

AdsRaised(msg) == [raised |-> TRUE, msg |-> msg]
AdsGenOutcomes ==
    {AdsRaised(e) : e \in AdsErrors} \cup {Returned(text) : text \in AdsSummaryTexts}
\* client.files.upload, then client.models.generate_content
AdsSummarizeOutcomes ==
    {[upload |-> AdsRaised(e), gen |-> Returned("")] : e \in AdsErrors}
    \cup {[upload |-> Returned(""), gen |-> g] : g \in AdsGenOutcomes}
AdsAnswerOutcomes ==
    {AdsRaised(e) : e \in AdsErrors} \cup {Returned(text) : text \in AdsAnswerTexts}

SummarizationErrorTexts == {Str("Error during summarization: " \o e) : e \in AdsErrors}

\* returns .failed as history only: the caller sees .ret
summarize_with_uploaded_file(file_path, env) ==
    IF env.upload.raised
    THEN [ret |-> Str("Error during summarization: " \o env.upload.msg), failed |-> TRUE]
    ELSE IF env.gen.raised
    THEN [ret |-> Str("Error during summarization: " \o env.gen.msg), failed |-> TRUE]
    ELSE [ret |-> Str(env.gen.text), failed |-> FALSE]

ads_handle_user_question(question, summary_arg, out) ==
    IF out.raised THEN Str("Error during Q&A: " \o out.msg) ELSE Str(out.text)

\* The rest of every script run: the summary section is rendered when the
\* key is present, and a non-empty text_input value is answered again.
ads_display(session_summary, user_question, out) ==
    IF session_summary # Absent /\ Truthy(user_question)
    THEN [shown |-> session_summary, qa_called |-> TRUE, qa_context |-> session_summary,
          response |-> ads_handle_user_question(user_question, session_summary, out)]
    ELSE [shown |-> session_summary, qa_called |-> FALSE, qa_context |-> None,
          response |-> None]

AdsRun(op, called, failed, stored, display) ==
    [op |-> op, called |-> called, failed |-> failed, stored |-> stored,
     display |-> display]

AdsInit ==
    /\ ads_summary = Absent
    /\ ads_pdf_file = None
    /\ ads_user_question = Str("")
    /\ ads_temp_files = 0
    /\ ads_last = AdsRun("start", FALSE, FALSE, FALSE, ads_display(Absent, Str(""), Returned("")))

\* The user picks, replaces or removes the file
AdsUploadFile ==
    /\ \E f \in AdsFiles : f # ads_pdf_file /\ ads_pdf_file' = f
    /\ \E out \in AdsAnswerOutcomes :
          ads_last' = AdsRun("upload", FALSE, FALSE, FALSE,
                             ads_display(ads_summary, ads_user_question, out))
    /\ UNCHANGED <<ads_summary, ads_user_question, ads_temp_files>>
    /\ UNCHANGED ads2_vars

\* "Summarize PDF" pressed.  The temporary file is created with
\* delete=False and never removed.
AdsSummarizePDF ==
    /\ IF ads_pdf_file # None
       THEN /\ ads_temp_files < AdsMaxSummaries
            /\ \E env \in AdsSummarizeOutcomes, out \in AdsAnswerOutcomes :
                 LET r == summarize_with_uploaded_file(ads_temp_files + 1, env)
                 IN  /\ ads_summary' = r.ret
                     /\ ads_temp_files' = ads_temp_files + 1
                     /\ ads_last' = AdsRun("summarize", TRUE, r.failed, TRUE,
                                           ads_display(r.ret, ads_user_question, out))
       ELSE /\ \E out \in AdsAnswerOutcomes :
                 ads_last' = AdsRun("summarize", FALSE, FALSE, FALSE,
                                    ads_display(ads_summary, ads_user_question, out))
            /\ UNCHANGED <<ads_summary, ads_temp_files>>
    /\ UNCHANGED <<ads_pdf_file, ads_user_question>>
    /\ UNCHANGED ads2_vars

\* The text_input, rendered only when the key is present, is edited
AdsTypeQuestion ==
    /\ ads_summary # Absent
    /\ \E q \in AdsQuestions, out \in AdsAnswerOutcomes :
          /\ Str(q) # ads_user_question
          /\ ads_user_question' = Str(q)
          /\ ads_last' = AdsRun("question", FALSE, FALSE, FALSE,
                                ads_display(ads_summary, Str(q), out))
    /\ UNCHANGED <<ads_summary, ads_pdf_file, ads_temp_files>>
    /\ UNCHANGED ads2_vars

NextAds == AdsUploadFile \/ AdsSummarizePDF \/ AdsTypeQuestion

(***************************************************************************)
(* Script runs of src/ads2.py                                              *)
(***************************************************************************)
NoCall(op) ==
    [op |-> op, called |-> FALSE, remote |-> FALSE, args |-> <<>>, ret |-> None,
     sent |-> None, raised |-> FALSE]

Init ==
    /\ summary = None
    /\ chat_history = <<>>
    /\ last_processed_files_key = None
    /\ pdf_docs = <<>>
    /\ summary_cache = {}
    /\ qa_cache = {}
    /\ temp_files = 0
    /\ remote_log = {}
    /\ failure_log = {}
    /\ turn_summary = <<>>
    /\ answered = <<>>
    /\ last = NoCall("start")
    /\ AdsInit

\* The user adds, removes or reorders files in the uploader; the run that
\* follows presses no button.
UploadFiles(lists) ==
    /\ \E docs \in lists : docs # pdf_docs /\ pdf_docs' = docs
    /\ last' = NoCall("upload")
    /\ UNCHANGED <<summary, chat_history, last_processed_files_key, summary_cache,
                   qa_cache, temp_files, remote_log, failure_log, turn_summary,
                   answered>>
    /\ UNCHANGED ads_vars

\* "Generate Summary" pressed.  An exception that leaves summarize_with_gemini
\* ends the script run at line 200, before any session key is assigned.
GenerateSummary(maxCache, gens, kinds, models) ==
    /\ UNCHANGED ads_vars
    /\ \E length_option \in LengthOptions, format_option \in FormatOptions :
        IF TruthyList(pdf_docs)
        THEN \E env \in SummarizeOutcomes(summary_cache, pdf_docs, lower(length_option),
                                            replace_space(lower(format_option)), gens, kinds,
                                            models) :
            LET current_files_key == generate_file_key(pdf_docs)
                summary_length == lower(length_option)
                output_format == replace_space(lower(format_option))
                r == summarize_with_gemini(summary_cache, pdf_docs, summary_length,
                                           output_format, env)
            IN  /\ Cardinality(r.cache) <= maxCache
                /\ summary_cache' = r.cache
                /\ temp_files' = temp_files + r.leaked
                /\ remote_log' = IF r.replied
                                  THEN remote_log \cup {[key |-> current_files_key,
                                                         length |-> summary_length,
                                                         format |-> output_format,
                                                         text |-> r.ret]}
                                  ELSE remote_log
                /\ failure_log' = IF ~r.raises /\ r.ret = None
                                   THEN failure_log \cup {<<summary_length, output_format>>}
                                   ELSE failure_log
                /\ summary' = IF r.raises THEN summary
                              ELSE IF Truthy(r.ret) THEN r.ret ELSE None
                /\ answered' = IF r.ret # None /\ r.ret # Str("") THEN <<>> ELSE answered
                /\ last' = [op |-> "summarize", called |-> TRUE, remote |-> ~r.hit,
                            args |-> <<current_files_key, summary_length, output_format>>,
                            ret |-> r.ret, sent |-> None, raised |-> r.raises]
                /\ UNCHANGED <<chat_history, last_processed_files_key, pdf_docs,
                               qa_cache, turn_summary>>
        ELSE /\ last' = NoCall("summarize")
             /\ UNCHANGED <<summary, chat_history, last_processed_files_key, pdf_docs,
                            summary_cache, qa_cache, temp_files, remote_log,
                            failure_log, turn_summary, answered>>

\* variant of ClearAllAndReset that leaves the transcript
ClearAllAndResetKeepHistory ==
    /\ summary' = None
    /\ last_processed_files_key' = None
    /\ last' = NoCall("reset")
    /\ UNCHANGED <<chat_history, turn_summary, answered, pdf_docs, summary_cache,
                   qa_cache, temp_files, remote_log, failure_log>>
    /\ UNCHANGED ads_vars

\* "Clear All & Reset" pressed
ClearAllAndReset ==
    /\ summary' = None
    /\ chat_history' = <<>>
    /\ last_processed_files_key' = None
    /\ turn_summary' = <<>>
    /\ answered' = <<>>
    /\ last' = NoCall("reset")
    /\ UNCHANGED <<pdf_docs, summary_cache, qa_cache, temp_files, remote_log,
                   failure_log>>
    /\ UNCHANGED ads_vars

\* variant of chat_input_rendered: the Q&A section is always rendered
chat_input_rendered_always == TRUE

\* the Q&A section, chat input included, is inside `if summary:`
chat_input_rendered == Truthy(summary)

\* A question submitted in the chat input
AskQuestion(maxTurns, maxCache, questions, outs) ==
    /\ UNCHANGED ads_vars
    /\ chat_input_rendered
    /\ Len(chat_history) < maxTurns
    /\ \E q \in questions :
       \E out \in QuestionOutcomes(qa_cache, Str(q), summary,
                                   last_k(chat_history, HISTORY_WINDOW), outs) :
        LET user_question == Str(q)
            history_for_prompt == last_k(chat_history, HISTORY_WINDOW)
            r == handle_user_question(qa_cache, user_question, summary,
                                      history_for_prompt, out)
            answer == r.ret
        IN  /\ Cardinality(r.cache) <= maxCache
            /\ qa_cache' = r.cache
            /\ chat_history' = IF Truthy(answer)
                                THEN Append(chat_history, <<user_question, answer>>)
                                ELSE chat_history
            /\ turn_summary' = IF Len(chat_history') > Len(chat_history)
                                THEN Append(turn_summary, summary)
                                ELSE turn_summary
            /\ answered' = IF answer # None /\ answer # Str("")
                            THEN Append(answered, <<user_question, answer>>)
                            ELSE answered
            /\ last' = [op |-> "ask", called |-> TRUE, remote |-> ~r.hit,
                        args |-> <<user_question, summary, history_for_prompt>>,
                        ret |-> answer, sent |-> r.sent, raised |-> FALSE]
            /\ UNCHANGED <<summary, last_processed_files_key, pdf_docs, summary_cache,
                           temp_files, remote_log, failure_log>>

\* The whole session.  Staging fails in upload_file only; the failures that
\* differ in the files they leave behind are left to SpecSum.
Next ==
    \/ UploadFiles(OneDocLists)
    \/ GenerateSummary(MaxSumCache, GenOutcomes, {"upload"}, ModelOk)
    \/ ClearAllAndReset
    \/ AskQuestion(MaxTurns, MaxQACache, Questions, AnswerOutcomes)

Spec == Init /\ [][Next]_vars

\* Uploads, summaries and resets.  Questions leave pdf_docs, summary_cache,
\* remote_log and temp_files alone.
NextSum ==
    \/ UploadFiles(DocLists)
    \/ GenerateSummary(SumMaxCache, GenOutcomes, StageKinds, ModelOk)
    \/ ClearAllAndReset

SpecSum == Init /\ [][NextSum]_vars

\* Long conversations: the remote model gives one summary text and one
\* answer text, and one summarization call is memoized.
NextChat ==
    \/ UploadFiles(OneDocLists)
    \/ GenerateSummary(1, ChatGenOutcomes, {"upload"}, ModelOk)
    \/ ClearAllAndReset
    \/ AskQuestion(ChatMaxTurns, ChatMaxQACache, ChatQuestions, ChatAnswerOutcomes)

SpecChat == Init /\ [][NextChat]_vars

\* The summarization adapter under every outcome of its collaborators,
\* get_gemini_model() included.
NextAdapter ==
    \/ UploadFiles(DocLists)
    \/ GenerateSummary(SumMaxCache, GenOutcomes, StageKinds, ModelOutcomes)
    \/ ClearAllAndReset

SpecAdapter == Init /\ [][NextAdapter]_vars

\* The single-file application
SpecAds == Init /\ [][NextAds]_vars

(***************************************************************************)
(* Vocabulary of the properties                                            *)
(***************************************************************************)
NonEmptyText(x) == x # None /\ x # Str("")
SummarizeCalled == last.op = "summarize" /\ last.called
AskCalled == last.op = "ask" /\ last.called
EmptySession == summary = None /\ chat_history = <<>> /\ last_processed_files_key = None
IsPermutation(p, s) ==
    /\ Len(p) = Len(s)
    /\ \E f \in [1..Len(s) -> 1..Len(s)] :
          /\ \A i, j \in 1..Len(s) : i # j => f[i] # f[j]
          /\ \A i \in 1..Len(s) : p[i] = s[f[i]]
\* the trailing min(k, n) elements of an n-element sequence, in order
Trailing(s, k) ==
    LET m == IF Len(s) < k THEN Len(s) ELSE k
    IN  [i \in 1..m |-> s[Len(s) - m + i]]
IsPrefix(s, t) == Len(s) <= Len(t) /\ \A i \in 1..Len(s) : s[i] = t[i]

(***************************************************************************)
(* C1: whenever summarize_with_gemini is called with a document set of     *)
(* fingerprint F and options (length, format) and returns a text, that     *)
(* text was produced by a remote call made for fingerprint F and those     *)
(* options.                                                                *)
(***************************************************************************)
C1_CacheServesOwnFingerprint ==
    (SummarizeCalled /\ last.ret # None) =>
        \E rec \in remote_log :
            /\ rec.key = last.args[1]
            /\ rec.length = last.args[2]
            /\ rec.format = last.args[3]
            /\ rec.text = last.ret

(***************************************************************************)
(* C2: when a "Generate Summary" action ends in a failure of the adapter   *)
(* (it returns None or an empty text), summary, chat_history and           *)
(* last_processed_files_key are the same after the action as before.       *)
(***************************************************************************)
C2_FailedSummaryKeepsSession ==
    [][(last'.op = "summarize" /\ last'.called /\ ~NonEmptyText(last'.ret))
        => session' = session]_vars

(***************************************************************************)
(* C3: right after every successful "Generate Summary" action the session  *)
(* summary is non-empty and chat_history is empty.                         *)
(***************************************************************************)
C3_SuccessfulSummaryClearsTranscript ==
    (SummarizeCalled /\ NonEmptyText(last.ret)) =>
        (NonEmptyText(summary) /\ chat_history = <<>>)

(***************************************************************************)
(* C4: every turn in the history window passed to handle_user_question     *)
(* was recorded while the summary passed with it was the session summary.  *)
(***************************************************************************)
C4_WindowBelongsToCurrentSummary ==
    [][last'.op = "ask" =>
        \A i \in 1..Len(chat_history) :
            i > Len(chat_history) - Len(last'.args[3]) => turn_summary[i] = last'.args[2]]_vars

(***************************************************************************)
(* C5: "Clear All & Reset" is enabled in every reachable state, and the    *)
(* state after it has summary None, chat_history empty and                 *)
(* last_processed_files_key None.                                          *)
(***************************************************************************)
C5_ResetYieldsEmpty ==
    /\ ENABLED ClearAllAndReset
    /\ last.op = "reset" => EmptySession

C5_Witness ==
    /\ last.op = "reset"
    /\ EmptySession
    /\ \E e \in qa_cache : NonEmptyText(e.val)

(***************************************************************************)
(* C6: after N successful answer calls following one successful summary,   *)
(* with no reset in between, chat_history is exactly the (question,        *)
(* answer) pairs of those N calls in call order.                           *)
(***************************************************************************)
C6_TranscriptIsAnswersSinceSummary ==
    NonEmptyText(summary) => chat_history = answered

(***************************************************************************)
(* C7: the history passed by a Q&A call is exactly the trailing min(3, n)  *)
(* turns of the n-turn transcript, in transcript order, never more than 3, *)
(* and the stored transcript is not truncated by the call.                 *)
(***************************************************************************)
C7_WindowIsTrailingThree ==
    [][last'.op = "ask" =>
        LET window == Trailing(chat_history, 3)
        IN  /\ last'.args[3] = window
            /\ Len(last'.args[3]) <= 3
            /\ last'.remote =>
                  /\ Len(last'.sent.history) = 2 * Len(window)
                  /\ \A i \in 1..Len(window) :
                        /\ last'.sent.history[2 * i - 1] = <<"User", window[i][1]>>
                        /\ last'.sent.history[2 * i] = <<"Assistant", window[i][2]>>
            /\ IsPrefix(chat_history, chat_history')]_vars

C7_Witness ==
    /\ AskCalled
    /\ last.remote
    /\ Len(chat_history) = 5
    /\ Len(last.args[3]) = 3
    /\ last.args[3] = SubSeq(chat_history, 2, 4)
    /\ last.args[3][1] # last.args[3][3]

(***************************************************************************)
(* C8: when a Q&A call fails (no answer, or an empty one) no turn is       *)
(* appended and summary, chat_history and last_processed_files_key are     *)
(* unchanged; every stored turn holds a non-empty answer text.             *)
(***************************************************************************)
C8_FailedAnswerKeepsSession ==
    /\ [](\A i \in 1..Len(chat_history) : NonEmptyText(chat_history[i][2]))
    /\ [][(last'.op = "ask" /\ ~NonEmptyText(last'.ret)) => session' = session]_vars

C8_Witness ==
    /\ AskCalled
    /\ ~NonEmptyText(last.ret)
    /\ NonEmptyText(summary)
    /\ chat_history # <<>>

(***************************************************************************)
(* C9: once a summarize call with document set S, length and format has    *)
(* returned a non-empty text, every later summarize call with the same S,  *)
(* length and format returns that text and makes no remote call.           *)
(***************************************************************************)
\* successful calls known in a state: those the remote model answered, and
\* the call of the latest script run (answered by it or by the memo table)
PriorSuccesses ==
    {[args |-> <<rec.key, rec.length, rec.format>>, text |-> rec.text] :
        rec \in {x \in remote_log : NonEmptyText(x.text)}}
    \cup (IF SummarizeCalled /\ NonEmptyText(last.ret)
          THEN {[args |-> last.args, text |-> last.ret]}
          ELSE {})

C9_WarmCacheHit ==
    [][\A prior \in PriorSuccesses :
        (last'.op = "summarize" /\ last'.called /\ last'.args = prior.args)
        => (last'.ret = prior.text /\ ~last'.remote)]_vars

C9_Witness ==
    /\ SummarizeCalled
    /\ ~last.remote
    /\ NonEmptyText(last.ret)
    /\ \E rec \in remote_log :
          <<rec.key, rec.length, rec.format>> = last.args /\ rec.text = last.ret

(***************************************************************************)
(* C10: generate_file_key gives the same key for every permutation of a    *)
(* non-empty document list, and None for the empty list.                   *)
(***************************************************************************)
C10_KeyOrderIndependent ==
    /\ \A p \in DocLists :
          IsPermutation(p, pdf_docs) => generate_file_key(p) = generate_file_key(pdf_docs)
    /\ pdf_docs = <<>> => generate_file_key(pdf_docs) = None
    /\ pdf_docs # <<>> => generate_file_key(pdf_docs) # None

C10_Witness ==
    /\ SummarizeCalled
    /\ Len(pdf_docs) = 2
    /\ last.args[1] # Tuple(pdf_docs)
    /\ last.args[1] = generate_file_key(<<pdf_docs[2], pdf_docs[1]>>)
(***************************************************************************)
(* C11: a "Generate Summary" action taken with no uploaded files does not  *)
(* call summarize_with_gemini (no staging, no remote call, nothing         *)
(* memoized) and leaves summary, chat_history and last_processed_files_key *)
(* unchanged.                                                              *)
(***************************************************************************)
C11_NoFilesOnlyWarns ==
    [][(last'.op = "summarize" /\ pdf_docs = <<>>) =>
        /\ ~last'.called
        /\ ~last'.remote
        /\ session' = session
        /\ summary_cache' = summary_cache
        /\ temp_files' = temp_files
        /\ remote_log' = remote_log]_vars

C11_Witness ==
    /\ last.op = "summarize"
    /\ ~last.called
    /\ pdf_docs = <<>>
    /\ NonEmptyText(summary)
    /\ chat_history # <<>>
(***************************************************************************)
(* C12: right after every successful "Generate Summary" action on the      *)
(* uploaded document set, last_processed_files_key equals                  *)
(* generate_file_key of that set.                                          *)
(***************************************************************************)
C12_SuccessStoresFingerprint ==
    (SummarizeCalled /\ NonEmptyText(last.ret)) =>
        /\ NonEmptyText(summary)
        /\ last_processed_files_key = generate_file_key(pdf_docs)
(***************************************************************************)
(* C13: summarize_with_gemini never raises to its caller: whatever model   *)
(* acquisition, temp-file staging, upload and generation do, the call      *)
(* returns a text or None.                                                 *)
(***************************************************************************)
C13_AdapterNeverRaises ==
    SummarizeCalled => ~last.raised
(***************************************************************************)
(* C14: every temporary file a summarize_with_gemini call creates is       *)
(* deleted by the time the call returns, so between user actions no        *)
(* temporary file is alive.                                                *)
(***************************************************************************)
C14_NoTempFileSurvives ==
    temp_files = 0
(***************************************************************************)
(* C15: in ads.py, a "Summarize PDF" action whose remote call fails stores *)
(* nothing under session_state["summary"], and no failure text is ever     *)
(* shown as the summary or passed as the context of a Q&A call.            *)
(***************************************************************************)
C15_AdsFailureStoresNothing ==
    /\ [](ads_last.display.shown \notin SummarizationErrorTexts)
    /\ [](ads_last.display.qa_called =>
              ads_last.display.qa_context \notin SummarizationErrorTexts)
    /\ [][(ads_last'.op = "summarize" /\ ads_last'.failed)
            => (~ads_last'.stored /\ ads_summary' = ads_summary)]_vars
(***************************************************************************)
(* C16: every reachable session is EMPTY (no summary, empty transcript, no *)
(* fingerprint) or SUMMARIZED (non-empty summary): a session without a     *)
(* summary has an empty transcript.                                        *)
(***************************************************************************)
C16_EmptyOrSummarized ==
    /\ NonEmptyText(summary) \/ EmptySession
    /\ ~NonEmptyText(summary) => chat_history = <<>>
(***************************************************************************)
(* C17: handle_user_question is called only while the session summary is   *)
(* non-empty, with that summary as its argument; in a state whose summary  *)
(* is None or empty no question can be submitted, no Q&A call is made and  *)
(* no turn is appended.                                                    *)
(***************************************************************************)
C17_QuestionsNeedSummary ==
    /\ [](~NonEmptyText(summary) =>
              ~ENABLED AskQuestion(MaxTurns, MaxQACache, Questions, AnswerOutcomes))
    /\ [][last'.op = "ask" =>
            (NonEmptyText(summary) /\ last'.args[2] = summary /\ summary' = summary)]_vars
    /\ [][~NonEmptyText(summary) =>
            (last'.op # "ask" /\ qa_cache' = qa_cache
             /\ Len(chat_history') <= Len(chat_history))]_vars

C17_Witness ==
    /\ AskCalled
    /\ last.remote
    /\ last.args[2] = summary
    /\ turn_summary # <<>>
    /\ turn_summary[1] # summary
    /\ NonEmptyText(last.ret)
====
